---- MODULE Spec2Model ----
(***************************************************************************)
(* The Worldle page component (src/app/page.tsx: home / setup / playing /  *)
(* results screens, practice and daily modes) and its single-game variant  *)
(* (src/app/page_overlay.tsx), as a state machine over the React state of  *)
(* the component.  One action is one event handler, run to completion      *)
(* together with the effects its state updates trigger.                    *)
(***************************************************************************)
EXTENDS Integers, Sequences, FiniteSets, TLC

VARIABLES
    page,             \* which page component is mounted
    countries,        \* the static country table imported from @/lib/countries
    gameScreen,       \* page.tsx:35
    gameMode,         \* page.tsx:36
    totalRounds,      \* page.tsx:37
    currentRound,     \* page.tsx:38
    roundResults,     \* page.tsx:39
    targetCountry,    \* page.tsx:42
    inputValue,       \* page.tsx:43
    guesses,          \* page.tsx:44
    roundOver,        \* page.tsx:45
    gameOver,         \* page_overlay.tsx:28
    win,              \* page.tsx:46
    showSuggestions,  \* page.tsx:48
    error,            \* page.tsx:50
    errorTimers,      \* pending setTimeout(() => setError(""), 3000) callbacks
    lastCall,         \* trace variable: the handler that made the last step
    acceptedCodes,    \* trace variable: codes accepted this round, oldest first
    today,            \* the clock: Math.floor(new Date().getTime() / 86400000)
    call,             \* a utility function applied on its own: name, arguments, result
    geometryRequest,  \* the promise chain of the geometry fetch, page.tsx:59-65
    countryPolygons,  \* page.tsx:55
    selectedIndex,    \* page.tsx:49
    pointOfView       \* the last camera command the handlers gave the globe

vars == <<page, countries, gameScreen, gameMode, totalRounds, currentRound,
          roundResults, targetCountry, inputValue, guesses, roundOver,
          gameOver, win, showSuggestions, error, errorTimers, lastCall,
          acceptedCodes, today, call, geometryRequest, countryPolygons,
          selectedIndex, pointOfView>>

(***************************************************************************)
(* Bounds of the model.                                                    *)
(***************************************************************************)
\* longest country table drawn in Init
MaxCountries == 2
\* longest practice session the model plays (the setup screen offers 3, 5, 10)
MaxRounds == 3
\* largest day index (days since the epoch) the clock reaches
MaxDay == 1
\* most error-clear timers pending at once
MaxTimers == 2
\* largest day index the daily index is computed for on its own
MaxDayIndex == 6
\* longest table length the daily index is computed for on its own
MaxTableLength == 4
\* largest distance (km) the tier functions are applied to: half the
\* circumference of the sphere of radius 6371
MaxDistance == 20015

(***************************************************************************)
(* Strings.  A name or a typed input is a sequence of characters, so that  *)
(* toLowerCase and includes are computed character by character.           *)
(***************************************************************************)
LowerOf ==
    ("A" :> "a") @@ ("G" :> "g") @@ ("I" :> "i") @@ ("L" :> "l") @@
    ("M" :> "m") @@ ("N" :> "n") @@ ("O" :> "o") @@ ("T" :> "t") @@
    ("C" :> "c") @@ ("R" :> "r") @@ ("S" :> "s")

toLowerCase(s) ==
    [i \in 1..Len(s) |-> IF s[i] \in DOMAIN LowerOf THEN LowerOf[s[i]] ELSE s[i]]

includes(s, sub) ==
    \E i \in 0..(Len(s) - Len(sub)) : SubSeq(s, i + 1, i + Len(sub)) = sub

(***************************************************************************)
(* Country records and the country table.  The table itself               *)
(* (@/lib/countries) is an input of the component: name, code, latitude,   *)
(* longitude, codes unique.  Coordinates lie on a 60-degree grid away from *)
(* the poles and the date line, where the haversine terms are exact        *)
(* sixteenths.  Mali and Togo are given the same coordinates: a table with *)
(* unique codes is free to hold two entries at one point.                  *)
(***************************************************************************)
Null == [name |-> <<>>, code |-> "null", latitude |-> 0, longitude |-> 0]

Mali == [name |-> <<"M", "a", "l", "i">>, code |-> "ML", latitude |-> 0, longitude |-> 0]

Oman == [name |-> <<"O", "m", "a", "n">>, code |-> "OM", latitude |-> 0, longitude |-> 60]

Togo == [name |-> <<"T", "o", "g", "o">>, code |-> "TG", latitude |-> 0, longitude |-> 0]

Pool == <<Mali, Oman, Togo>>

RECURSIVE SubSeqsOf(_)
SubSeqsOf(s) ==
    IF s = <<>> THEN {<<>>}
    ELSE LET rest == SubSeqsOf(Tail(s))
         IN  rest \cup {<<Head(s)>> \o t : t \in rest}

Tables == {t \in SubSeqsOf(Pool) : Len(t) >= 1 /\ Len(t) <= MaxCountries}

\* what the user may type into the input box
InputValues ==
    { <<>>,
      <<"m", "a">>,
      <<"m", "a", "l", "i">>,
      <<"O", "M", "A", "N">>,
      <<"T", "o", "g", "o">> }

NotFoundMessage == "Country not found! Please select from the list."

DuplicateMessage == "You already guessed this country!"

NoMode == "null"

Pages == {"page.tsx", "page_overlay.tsx"}

(***************************************************************************)
(* Geodesic engine.                                                        *)
(***************************************************************************)
\* 4 * sin(deg2rad(deg) / 2)^2 for a difference deg of two grid coordinates,
\* a multiple of 60 short of a full turn (sin^2 is even)
SinSqHalfTimes4(deg) ==
    LET d == IF deg < 0 THEN 0 - deg ELSE deg
    IN  CASE d = 0 -> 0
          [] d = 60 -> 1
          [] d = 120 -> 3
          [] d = 180 -> 4
          [] d = 240 -> 3
          [] d = 300 -> 1

\* 2 * cos(deg2rad(deg)) for a latitude deg in {-60, 0, 60}
CosTimes2(deg) ==
    CASE deg = 0 -> 2
      [] deg = 60 -> 1
      [] deg = -60 -> 1

\* R * 2 * atan2(sqrt(a), sqrt(1 - a)) with R = 6371, at a = k/16 for
\* k = 0..16, to the nearest kilometre
HaversineKm ==
    <<0, 3220, 4605, 5706, 6672, 7559, 8398, 9209, 10008, 10806, 11617,
      12457, 13343, 14309, 15411, 16795, 20015>>

getDistanceFromLatLonInKm_SumLon(lat1, lon1, lat2, lon2) ==
    LET dLat == lat2 - lat1
        dLon == lon2 + lon1
        a16 == 4 * SinSqHalfTimes4(dLat)
               + CosTimes2(lat1) * CosTimes2(lat2) * SinSqHalfTimes4(dLon)
    IN  HaversineKm[a16 + 1]

getDistanceFromLatLonInKm_FromEquator(lat1, lon1, lat2, lon2) ==
    LET dLat == lat2
        dLon == lon2 - lon1
        a16 == 4 * SinSqHalfTimes4(dLat)
               + CosTimes2(lat1) * CosTimes2(lat2) * SinSqHalfTimes4(dLon)
    IN  HaversineKm[a16 + 1]

getDistanceFromLatLonInKm(lat1, lon1, lat2, lon2) ==
    LET dLat == lat2 - lat1
        dLon == lon2 - lon1
        a16 == 4 * SinSqHalfTimes4(dLat)
               + CosTimes2(lat1) * CosTimes2(lat2) * SinSqHalfTimes4(dLon)
    IN  HaversineKm[a16 + 1]

(***************************************************************************)
(* Bearing.  On a 30-degree grid the sines and cosines are 0, 1/2,         *)
(* sqrt(3)/2 and 1: a pair <<p, q>> stands for p + q * sqrt(3), and y and  *)
(* x are carried as eight times their value.                               *)
(***************************************************************************)
\* 2 * sin(deg2rad(deg)) for deg in -60..60, a multiple of 30
SinSurd(deg) ==
    CASE deg = -60 -> <<0, -1>>
      [] deg = -30 -> <<-1, 0>>
      [] deg = 0 -> <<0, 0>>
      [] deg = 30 -> <<1, 0>>
      [] deg = 60 -> <<0, 1>>

\* 2 * cos(deg2rad(deg)) for deg in -60..60, a multiple of 30
CosSurd(deg) ==
    CASE deg = -60 -> <<1, 0>>
      [] deg = -30 -> <<0, 1>>
      [] deg = 0 -> <<2, 0>>
      [] deg = 30 -> <<0, 1>>
      [] deg = 60 -> <<1, 0>>

SurdMul(a, b) == <<a[1] * b[1] + 3 * a[2] * b[2], a[1] * b[2] + a[2] * b[1]>>

SurdSub(a, b) == <<a[1] - b[1], a[2] - b[2]>>

SurdScale(k, a) == <<k * a[1], k * a[2]>>

\* Math.atan2(y, x) * 180 / Math.PI in hundredths of a degree, to the nearest
\* hundredth, for the <<y, x>> = <<yp + yq sqrt(3), xp + xq sqrt(3)>> of the
\* grid; Math.atan2(0, 0) is 0
Atan2Centideg ==
    (<<-6, 0, -5, 0>> :> -12981) @@ (<<-6, 0, -4, 0>> :> -12369) @@
    (<<-6, 0, -1, 0>> :> -9946) @@ (<<-6, 0, 0, -3>> :> -13089) @@
    (<<-6, 0, 0, -1>> :> -10610) @@ (<<-6, 0, 0, 1>> :> -7390) @@
    (<<-6, 0, 0, 3>> :> -4911) @@ (<<-6, 0, 1, 0>> :> -8054) @@
    (<<-6, 0, 4, 0>> :> -5631) @@ (<<-6, 0, 5, 0>> :> -5019) @@
    (<<-4, 0, -6, 0>> :> -14631) @@ (<<-4, 0, 0, -2>> :> -13089) @@
    (<<-4, 0, 0, 0>> :> -9000) @@ (<<-4, 0, 0, 2>> :> -4911) @@
    (<<-4, 0, 6, 0>> :> -3369) @@ (<<-2, 0, -6, -1>> :> -16550) @@
    (<<-2, 0, -6, 1>> :> -15489) @@ (<<-2, 0, -3, -2>> :> -16281) @@
    (<<-2, 0, -3, 2>> :> -7694) @@ (<<-2, 0, 0, -4>> :> -16390) @@
    (<<-2, 0, 0, 4>> :> -1610) @@ (<<-2, 0, 3, -2>> :> -10306) @@
    (<<-2, 0, 3, 2>> :> -1719) @@ (<<-2, 0, 6, -1>> :> -2511) @@
    (<<-2, 0, 6, 1>> :> -1450) @@ (<<0, -4, -2, 0>> :> -10610) @@
    (<<0, -4, 0, -2>> :> -11657) @@ (<<0, -4, 0, 0>> :> -9000) @@
    (<<0, -4, 0, 2>> :> -6343) @@ (<<0, -4, 2, 0>> :> -7390) @@
    (<<0, -2, -7, 0>> :> -15367) @@ (<<0, -2, -5, 0>> :> -14528) @@
    (<<0, -2, -4, 0>> :> -13911) @@ (<<0, -2, -3, -2>> :> -15181) @@
    (<<0, -2, -3, 2>> :> -8237) @@ (<<0, -2, -2, -3>> :> -15429) @@
    (<<0, -2, -2, 3>> :> -4730) @@ (<<0, -2, 0, -4>> :> -15343) @@
    (<<0, -2, 0, -3>> :> -14631) @@ (<<0, -2, 0, -1>> :> -11657) @@
    (<<0, -2, 0, 1>> :> -6343) @@ (<<0, -2, 0, 3>> :> -3369) @@
    (<<0, -2, 0, 4>> :> -2657) @@ (<<0, -2, 2, -3>> :> -13270) @@
    (<<0, -2, 2, 3>> :> -2571) @@ (<<0, -2, 3, -2>> :> -9763) @@
    (<<0, -2, 3, 2>> :> -2819) @@ (<<0, -2, 4, 0>> :> -4089) @@
    (<<0, -2, 5, 0>> :> -3472) @@ (<<0, -2, 7, 0>> :> -2633) @@
    (<<0, 0, -8, 0>> :> 18000) @@ (<<0, 0, -4, 0>> :> 18000) @@
    (<<0, 0, 0, -4>> :> 18000) @@ (<<0, 0, 0, 0>> :> 0) @@
    (<<0, 0, 0, 4>> :> 0) @@ (<<0, 0, 4, 0>> :> 0) @@
    (<<0, 0, 8, 0>> :> 0) @@ (<<0, 2, -7, 0>> :> 15367) @@
    (<<0, 2, -5, 0>> :> 14528) @@ (<<0, 2, -4, 0>> :> 13911) @@
    (<<0, 2, -3, -2>> :> 15181) @@ (<<0, 2, -3, 2>> :> 8237) @@
    (<<0, 2, -2, -3>> :> 15429) @@ (<<0, 2, -2, 3>> :> 4730) @@
    (<<0, 2, 0, -4>> :> 15343) @@ (<<0, 2, 0, -3>> :> 14631) @@
    (<<0, 2, 0, -1>> :> 11657) @@ (<<0, 2, 0, 1>> :> 6343) @@
    (<<0, 2, 0, 3>> :> 3369) @@ (<<0, 2, 0, 4>> :> 2657) @@
    (<<0, 2, 2, -3>> :> 13270) @@ (<<0, 2, 2, 3>> :> 2571) @@
    (<<0, 2, 3, -2>> :> 9763) @@ (<<0, 2, 3, 2>> :> 2819) @@
    (<<0, 2, 4, 0>> :> 4089) @@ (<<0, 2, 5, 0>> :> 3472) @@
    (<<0, 2, 7, 0>> :> 2633) @@ (<<0, 4, -2, 0>> :> 10610) @@
    (<<0, 4, 0, -2>> :> 11657) @@ (<<0, 4, 0, 0>> :> 9000) @@
    (<<0, 4, 0, 2>> :> 6343) @@ (<<0, 4, 2, 0>> :> 7390) @@
    (<<2, 0, -6, -1>> :> 16550) @@ (<<2, 0, -6, 1>> :> 15489) @@
    (<<2, 0, -3, -2>> :> 16281) @@ (<<2, 0, -3, 2>> :> 7694) @@
    (<<2, 0, 0, -4>> :> 16390) @@ (<<2, 0, 0, 4>> :> 1610) @@
    (<<2, 0, 3, -2>> :> 10306) @@ (<<2, 0, 3, 2>> :> 1719) @@
    (<<2, 0, 6, -1>> :> 2511) @@ (<<2, 0, 6, 1>> :> 1450) @@
    (<<4, 0, -6, 0>> :> 14631) @@ (<<4, 0, 0, -2>> :> 13089) @@
    (<<4, 0, 0, 0>> :> 9000) @@ (<<4, 0, 0, 2>> :> 4911) @@
    (<<4, 0, 6, 0>> :> 3369) @@ (<<6, 0, -5, 0>> :> 12981) @@
    (<<6, 0, -4, 0>> :> 12369) @@ (<<6, 0, -1, 0>> :> 9946) @@
    (<<6, 0, 0, -3>> :> 13089) @@ (<<6, 0, 0, -1>> :> 10610) @@
    (<<6, 0, 0, 1>> :> 7390) @@ (<<6, 0, 0, 3>> :> 4911) @@
    (<<6, 0, 1, 0>> :> 8054) @@ (<<6, 0, 4, 0>> :> 5631) @@
    (<<6, 0, 5, 0>> :> 5019)

compass_EightEntries == <<"N", "NE", "E", "SE", "S", "SW", "W", "NW">>

\* const compass = ['N', 'NE', 'E', 'SE', 'S', 'SW', 'W', 'NW', 'N']
compass == <<"N", "NE", "E", "SE", "S", "SW", "W", "NW", "N">>

\* (deg + 360) % 360, in hundredths of a degree, for deg from -180 to 180
normalizedBearing(deg) == (deg + 36000) % 36000

roundedOctant_Floor(deg) == normalizedBearing(deg) \div 4500

\* Math.round(((deg + 360) % 360) / 45), halves rounded up
roundedOctant(deg) == (normalizedBearing(deg) + 2250) \div 4500

\* compass[index]: an index outside the array reads undefined
compassAt(index) ==
    IF (index + 1) \in DOMAIN compass THEN compass[index + 1] ELSE "undefined"

\* the index getDirection computes
compassIndex(lat1, lon1, lat2, lon2) ==
    LET dLon == lon2 - lon1
        y == SurdScale(2, SurdMul(SinSurd(dLon), CosSurd(lat2)))
        x == SurdSub(SurdScale(2, SurdMul(CosSurd(lat1), SinSurd(lat2))),
                     SurdMul(SurdMul(SinSurd(lat1), CosSurd(lat2)), CosSurd(dLon)))
        deg == Atan2Centideg[<<y[1], y[2], x[1], x[2]>>]
    IN  roundedOctant(deg)

getDirection(lat1, lon1, lat2, lon2) ==
    compassAt(compassIndex(lat1, lon1, lat2, lon2))

(***************************************************************************)
(* Feedback tiers.  Each view has its own copy of the thresholds.          *)
(***************************************************************************)
getColor(distance) ==
    IF distance = 0 THEN "from-emerald-500 to-green-600"
    ELSE IF distance < 1000 THEN "from-red-500 to-red-600"
    ELSE IF distance < 3000 THEN "from-orange-500 to-orange-600"
    ELSE IF distance < 8000 THEN "from-yellow-400 to-yellow-500"
    ELSE "from-gray-400 to-gray-500"

getTextColor(distance) ==
    IF distance < 8000 THEN "text-white" ELSE "text-gray-900"

getPointColor(distance) ==
    IF distance = 0 THEN "#10b981"
    ELSE IF distance < 1000 THEN "#ef4444"
    ELSE IF distance < 3000 THEN "#f97316"
    ELSE IF distance < 8000 THEN "#facc15"
    ELSE "#9ca3af"

getHotColdText_Inclusive(distance) ==
    IF distance = 0 THEN "CORRECT!"
    ELSE IF distance <= 1000 THEN "HOT"
    ELSE IF distance <= 3000 THEN "WARM"
    ELSE IF distance <= 8000 THEN "COOL"
    ELSE "COLD"

\* the text after the emoji
getHotColdText(distance) ==
    IF distance = 0 THEN "CORRECT!"
    ELSE IF distance < 1000 THEN "HOT"
    ELSE IF distance < 3000 THEN "WARM"
    ELSE IF distance < 8000 THEN "COOL"
    ELSE "COLD"

\* getPolygonColor for a polygon matched to a guess at this distance
guessedPolygonColor(distance) ==
    IF distance = 0 THEN "rgba(16, 185, 129, 0.8)"
    ELSE IF distance < 1000 THEN "rgba(239, 68, 68, 0.8)"
    ELSE IF distance < 3000 THEN "rgba(249, 115, 22, 0.8)"
    ELSE IF distance < 8000 THEN "rgba(250, 204, 21, 0.8)"
    ELSE "rgba(156, 163, 175, 0.8)"

\* the copies in page_overlay.tsx
overlayGetColor(distance) ==
    IF distance = 0 THEN "from-emerald-500 to-green-600"
    ELSE IF distance < 1000 THEN "from-red-500 to-red-600"
    ELSE IF distance < 3000 THEN "from-orange-500 to-orange-600"
    ELSE IF distance < 8000 THEN "from-yellow-400 to-yellow-500"
    ELSE "from-gray-400 to-gray-500"

overlayGetTextColor(distance) ==
    IF distance < 8000 THEN "text-white" ELSE "text-gray-900"

overlayGetPointColor_WarmTo2000(distance) ==
    IF distance = 0 THEN "#10b981"
    ELSE IF distance < 1000 THEN "#ef4444"
    ELSE IF distance < 2000 THEN "#f97316"
    ELSE IF distance < 8000 THEN "#facc15"
    ELSE "#9ca3af"

overlayGetPointColor(distance) ==
    IF distance = 0 THEN "#10b981"
    ELSE IF distance < 1000 THEN "#ef4444"
    ELSE IF distance < 3000 THEN "#f97316"
    ELSE IF distance < 8000 THEN "#facc15"
    ELSE "#9ca3af"

overlayGetHotColdText(distance) ==
    IF distance = 0 THEN "CORRECT!"
    ELSE IF distance < 1000 THEN "HOT"
    ELSE IF distance < 3000 THEN "WARM"
    ELSE IF distance < 8000 THEN "COOL"
    ELSE "COLD"

overlayGuessedPolygonColor(distance) ==
    IF distance = 0 THEN "rgba(16, 185, 129, 0.8)"
    ELSE IF distance < 1000 THEN "rgba(239, 68, 68, 0.8)"
    ELSE IF distance < 3000 THEN "rgba(249, 115, 22, 0.8)"
    ELSE IF distance < 8000 THEN "rgba(250, 204, 21, 0.8)"
    ELSE "rgba(156, 163, 175, 0.8)"

(***************************************************************************)
(* Helpers of the handlers.                                                *)
(***************************************************************************)
Mark(op, arg) == lastCall' = [op |-> op, arg |-> arg]

\* countries.filter(c => c.name.toLowerCase().includes(inputValue.toLowerCase()))
filteredCountries ==
    IF Len(inputValue) > 0
    THEN SelectSeq(countries,
                   LAMBDA c : includes(toLowerCase(c.name), toLowerCase(inputValue)))
    ELSE <<>>

\* the effect on [inputValue]: it runs when the value has changed
SuggestionsAfter(newValue) ==
    IF newValue # inputValue THEN Len(newValue) > 0 ELSE showSuggestions

FindCountry_Substring(name) ==
    LET hits == SelectSeq(countries,
                          LAMBDA c : includes(toLowerCase(c.name), toLowerCase(name)))
    IN  IF hits = <<>> THEN Null ELSE hits[1]

\* countries.find(c => c.name.toLowerCase() === inputValue.toLowerCase())
FindCountry(name) ==
    LET hits == SelectSeq(countries,
                          LAMBDA c : toLowerCase(c.name) = toLowerCase(name))
    IN  IF hits = <<>> THEN Null ELSE hits[1]

AlreadyGuessed_Never(guessedCountry) == FALSE

AlreadyGuessed_Older(guessedCountry) ==
    \E i \in 2..Len(guesses) : guesses[i].country.code = guessedCountry.code

AlreadyGuessed_ByTypedName(guessedCountry) ==
    \E i \in 1..Len(guesses) :
        toLowerCase(guesses[i].country.name) = toLowerCase(inputValue)

\* guesses.some(g => g.country.code === guessedCountry.code)
AlreadyGuessed(guessedCountry) ==
    \E i \in 1..Len(guesses) : guesses[i].country.code = guessedCountry.code

IsTarget_ByDistance(guessedCountry) ==
    getDistanceFromLatLonInKm(guessedCountry.latitude, guessedCountry.longitude,
                              targetCountry.latitude, targetCountry.longitude) = 0

\* guessedCountry.code === targetCountry.code
IsTarget(guessedCountry) ==
    guessedCountry.code = targetCountry.code

UpdatedGuesses_Appended(newGuess) == Append(guesses, newGuess)

\* [newGuess, ...guesses]
UpdatedGuesses(newGuess) == <<newGuess>> \o guesses

WonResult_BeforeThisGuess(updatedGuesses) ==
    [country |-> targetCountry, guesses |-> Len(guesses), won |-> TRUE]

\* the RoundResult submitGuess records for a winning guess
WonResult(updatedGuesses) ==
    [country |-> targetCountry, guesses |-> Len(updatedGuesses), won |-> TRUE]

SkipResult_CountsGuesses ==
    [country |-> targetCountry, guesses |-> Len(guesses), won |-> FALSE]

\* the RoundResult skipRound records
SkipResult ==
    [country |-> targetCountry, guesses |-> 0, won |-> FALSE]

dailyIndex_EveryOtherDay(daysSinceEpoch, length) ==
    (daysSinceEpoch \div 2) % length

\* const index = daysSinceEpoch % countries.length
dailyIndex(daysSinceEpoch, length) ==
    daysSinceEpoch % length

\* getTodaysCountry, for the day index daysSinceEpoch
getTodaysCountry(daysSinceEpoch) ==
    countries[dailyIndex(daysSinceEpoch, Len(countries)) + 1]

TargetChoices_AnyEntry(currentMode) ==
    IF currentMode = "daily"
    THEN {getTodaysCountry(today)}
    ELSE {countries[i] : i \in 1..Len(countries)}

TargetChoices_DailyShiftedByGuesses(currentMode) ==
    IF currentMode = "daily"
    THEN {getTodaysCountry(today + Len(guesses))}
    ELSE {countries[i] : i \in
            {j \in 1..Len(countries) :
                ~(targetCountry # Null
                  /\ countries[j].code = targetCountry.code
                  /\ Len(countries) > 1)}}

\* the values the target selection of startNewRound can end with
TargetChoices(currentMode) ==
    IF currentMode = "daily"
    THEN {getTodaysCountry(today)}
    ELSE {countries[i] : i \in
            {j \in 1..Len(countries) :
                ~(targetCountry # Null
                  /\ countries[j].code = targetCountry.code
                  /\ Len(countries) > 1)}}

\* setTimeout(() => setError(""), 3000); at most MaxTimers are left pending
ScheduleErrorClear ==
    /\ errorTimers < MaxTimers
    /\ errorTimers' = errorTimers + 1

RoundClosed_WonOnly == win \/ targetCountry = Null

\* the early return of submitGuess: roundOver || !targetCountry
RoundClosed == roundOver \/ targetCountry = Null

SkipIgnored_NoTargetOnly == targetCountry = Null

\* the early return of skipRound: !targetCountry || roundOver
SkipIgnored == targetCountry = Null \/ roundOver

SkipButtonShown_AnyMode == TRUE

\* the Skip Round button is rendered: gameMode === "practice"
SkipButtonShown == gameMode = "practice"

(***************************************************************************)
(* Handlers of page.tsx.                                                   *)
(***************************************************************************)
\* no camera command has been issued
NoPointOfView == [lat |-> 0, lng |-> 0, altitude |-> 0]

\* globeEl.current.pointOfView({lat: random.latitude, lng: random.longitude,
\* altitude: 2.5}, 1000), the altitude in tenths.  A Globe holding the ref is
\* rendered on every screen, so globeEl.current is set when a handler runs.
roundStartPointOfView(random) ==
    [lat |-> random.latitude, lng |-> random.longitude, altitude |-> 25]

\* the camera command of an accepted guess: altitude 2.  The zoom a winning
\* guess schedules 500 ms later (page.tsx:207-216) goes to the same
\* coordinates, those of the target just guessed.
guessPointOfView(guessedCountry) ==
    [lat |-> guessedCountry.latitude, lng |-> guessedCountry.longitude,
     altitude |-> 20]

startNewRound_KeepsGuesses(mode) ==
    LET currentMode == IF mode # NoMode THEN mode ELSE gameMode
    IN  /\ \E random \in TargetChoices(currentMode) :
               /\ targetCountry' = random
               /\ pointOfView' = roundStartPointOfView(random)
        /\ guesses' = guesses
        /\ roundOver' = FALSE
        /\ win' = FALSE
        /\ inputValue' = <<>>
        /\ showSuggestions' = SuggestionsAfter(<<>>)
        /\ error' = ""
        /\ acceptedCodes' = acceptedCodes

startNewRound(mode) ==
    LET currentMode == IF mode # NoMode THEN mode ELSE gameMode
    IN  /\ \E random \in TargetChoices(currentMode) :
               /\ targetCountry' = random
               /\ pointOfView' = roundStartPointOfView(random)
        /\ guesses' = <<>>
        /\ roundOver' = FALSE
        /\ win' = FALSE
        /\ inputValue' = <<>>
        /\ showSuggestions' = SuggestionsAfter(<<>>)
        /\ error' = ""
        /\ acceptedCodes' = <<>>

startGame_KeepsResults(mode, rounds) ==
    /\ gameMode' = mode
    /\ totalRounds' = rounds
    /\ currentRound' = 1
    /\ roundResults' = roundResults
    /\ gameScreen' = "playing"
    /\ startNewRound(mode)
    /\ Mark("startGame", mode)
    /\ UNCHANGED <<page, countries, today, call, geometryRequest, countryPolygons,
                   selectedIndex, gameOver, errorTimers>>

startGame(mode, rounds) ==
    /\ gameMode' = mode
    /\ totalRounds' = rounds
    /\ currentRound' = 1
    /\ roundResults' = <<>>
    /\ gameScreen' = "playing"
    /\ startNewRound(mode)
    /\ Mark("startGame", mode)
    /\ UNCHANGED <<page, countries, today, call, geometryRequest, countryPolygons,
                   selectedIndex, gameOver, errorTimers>>

submitGuess(selectedCountry) ==
    /\ Mark("submitGuess", selectedCountry.code)
    /\ UNCHANGED <<page, countries, today, call, geometryRequest, countryPolygons,
                   selectedIndex, gameScreen, gameMode, totalRounds,
                   currentRound, targetCountry, gameOver>>
    /\ IF RoundClosed
       THEN UNCHANGED <<guesses, inputValue, showSuggestions, error, errorTimers,
                        win, roundOver, roundResults, acceptedCodes, pointOfView>>
       ELSE LET guessedCountry ==
                    IF selectedCountry # Null THEN selectedCountry
                    ELSE FindCountry(inputValue)
            IN  IF guessedCountry = Null
                THEN /\ error' = NotFoundMessage
                     /\ ScheduleErrorClear
                     /\ UNCHANGED <<guesses, inputValue, showSuggestions, win,
                                    roundOver, roundResults, acceptedCodes,
                                    pointOfView>>
                ELSE IF AlreadyGuessed(guessedCountry)
                THEN /\ error' = DuplicateMessage
                     /\ ScheduleErrorClear
                     /\ UNCHANGED <<guesses, inputValue, showSuggestions, win,
                                    roundOver, roundResults, acceptedCodes,
                                    pointOfView>>
                ELSE LET distance ==
                             getDistanceFromLatLonInKm(
                                 guessedCountry.latitude, guessedCountry.longitude,
                                 targetCountry.latitude, targetCountry.longitude)
                         newGuess == [country |-> guessedCountry, distance |-> distance]
                         updatedGuesses == UpdatedGuesses(newGuess)
                     IN  /\ guesses' = updatedGuesses
                         /\ inputValue' = <<>>
                         /\ showSuggestions' = FALSE
                         /\ error' = ""
                         /\ UNCHANGED errorTimers
                         /\ acceptedCodes' = Append(acceptedCodes, guessedCountry.code)
                         /\ pointOfView' = guessPointOfView(guessedCountry)
                         /\ IF IsTarget(guessedCountry)
                            THEN /\ win' = TRUE
                                 /\ roundOver' = TRUE
                                 /\ roundResults' =
                                        Append(roundResults,
                                               WonResult(updatedGuesses))
                            ELSE UNCHANGED <<win, roundOver, roundResults>>

skipRound_DrawsNewTarget ==
    /\ Mark("skipRound", "")
    /\ UNCHANGED <<page, countries, today, call, geometryRequest, countryPolygons,
                   selectedIndex, pointOfView, gameScreen, gameMode, totalRounds,
                   currentRound, gameOver, guesses, inputValue,
                   showSuggestions, error, errorTimers, win, acceptedCodes>>
    /\ IF SkipIgnored
       THEN UNCHANGED <<roundOver, roundResults, targetCountry>>
       ELSE /\ roundOver' = TRUE
            /\ roundResults' = Append(roundResults, SkipResult)
            /\ targetCountry' \in TargetChoices(gameMode)

skipRound ==
    /\ Mark("skipRound", "")
    /\ UNCHANGED <<page, countries, today, call, geometryRequest, countryPolygons,
                   selectedIndex, pointOfView, gameScreen, gameMode, totalRounds,
                   currentRound, targetCountry, gameOver, guesses, inputValue,
                   showSuggestions, error, errorTimers, win, acceptedCodes>>
    /\ IF SkipIgnored
       THEN UNCHANGED <<roundOver, roundResults>>
       ELSE /\ roundOver' = TRUE
            /\ roundResults' = Append(roundResults, SkipResult)

HasNextRound_Inclusive == currentRound <= totalRounds

\* currentRound < totalRounds
HasNextRound == currentRound < totalRounds

nextRound ==
    /\ Mark("nextRound", "")
    /\ UNCHANGED <<page, countries, today, call, geometryRequest, countryPolygons,
                   selectedIndex, gameMode, totalRounds, roundResults,
                   gameOver, errorTimers>>
    /\ IF HasNextRound
       THEN /\ currentRound' = currentRound + 1
            /\ startNewRound(NoMode)
            /\ UNCHANGED gameScreen
       ELSE /\ gameScreen' = "results"
            /\ UNCHANGED <<currentRound, targetCountry, guesses, roundOver, win,
                           inputValue, showSuggestions, error, acceptedCodes,
                           pointOfView>>

returnToHome ==
    /\ gameScreen' = "home"
    /\ gameMode' = NoMode
    /\ currentRound' = 1
    /\ roundResults' = <<>>
    /\ targetCountry' = Null
    /\ Mark("returnToHome", "")
    /\ UNCHANGED <<page, countries, today, call, geometryRequest, countryPolygons,
                   selectedIndex, pointOfView, totalRounds, guesses, roundOver, gameOver,
                   win, inputValue, showSuggestions, error, errorTimers,
                   acceptedCodes>>

\* wonRounds.reduce((sum, r) => sum + r.guesses, 0)
RECURSIVE totalGuesses(_)
totalGuesses(wonRounds) ==
    IF wonRounds = <<>> THEN 0
    ELSE Head(wonRounds).guesses + totalGuesses(Tail(wonRounds))

\* (n / d).toFixed(1): the digits before and after the point, a tie between
\* two tenths going to the larger
toFixed1(n, d) ==
    LET tenths == (20 * n + d) \div (2 * d)
    IN  <<tenths \div 10, tenths % 10>>

AverageScoreOf_AllRounds(results) ==
    LET wonRounds == SelectSeq(results, LAMBDA r : r.won)
    IN  IF Len(wonRounds) = 0 THEN <<0>>
        ELSE toFixed1(totalGuesses(wonRounds), Len(results))

\* calculateAverageScore over a list of RoundResults: the number 0 is <<0>>,
\* the string "w.t" is <<w, t>>
AverageScoreOf(results) ==
    LET wonRounds == SelectSeq(results, LAMBDA r : r.won)
    IN  IF Len(wonRounds) = 0 THEN <<0>>
        ELSE toFixed1(totalGuesses(wonRounds), Len(wonRounds))

calculateAverageScore == AverageScoreOf(roundResults)

\* the win count of the results screen: roundResults.filter(r => r.won).length
wonRoundsCount == Len(SelectSeq(roundResults, LAMBDA r : r.won))

\* onChange of the input box, and the effect on [inputValue]
setInputValue(value) ==
    /\ value # inputValue
    /\ inputValue' = value
    /\ showSuggestions' = SuggestionsAfter(value)
    /\ selectedIndex' = IF Len(value) > 0 THEN -1 ELSE selectedIndex
    /\ Mark("setInputValue", "")
    /\ UNCHANGED <<page, countries, today, call, geometryRequest, countryPolygons,
                   pointOfView, gameScreen, gameMode, totalRounds,
                   currentRound, roundResults, targetCountry, guesses, roundOver,
                   gameOver, win, error, errorTimers, acceptedCodes>>

\* the callback of setTimeout(() => setError(""), 3000)
ErrorTimerFires ==
    /\ errorTimers > 0
    /\ errorTimers' = errorTimers - 1
    /\ error' = ""
    /\ Mark("errorTimer", "")
    /\ UNCHANGED <<page, countries, today, call, geometryRequest, countryPolygons,
                   selectedIndex, pointOfView, gameScreen, gameMode, totalRounds,
                   currentRound, roundResults, targetCountry, guesses, roundOver,
                   gameOver, win, inputValue, showSuggestions, acceptedCodes>>

\* Escape in the input box (handleKeyDown)
hideSuggestions ==
    /\ showSuggestions
    /\ filteredCountries # <<>>
    /\ showSuggestions' = FALSE
    /\ Mark("hideSuggestions", "")
    /\ UNCHANGED <<page, countries, today, call, geometryRequest, countryPolygons,
                   selectedIndex, pointOfView, gameScreen, gameMode, totalRounds,
                   currentRound, roundResults, targetCountry, guesses, roundOver,
                   gameOver, win, inputValue, error, errorTimers, acceptedCodes>>

\* onFocus of the input box: inputValue && setShowSuggestions(true)
focusInput ==
    /\ Len(inputValue) > 0
    /\ ~showSuggestions
    /\ showSuggestions' = TRUE
    /\ Mark("focusInput", "")
    /\ UNCHANGED <<page, countries, today, call, geometryRequest, countryPolygons,
                   selectedIndex, pointOfView, gameScreen, gameMode, totalRounds,
                   currentRound, roundResults, targetCountry, guesses, roundOver,
                   gameOver, win, inputValue, error, errorTimers, acceptedCodes>>

\* the early return of handleKeyDown
KeysIgnored == ~showSuggestions \/ filteredCountries = <<>>

\* ArrowDown in the input box (handleKeyDown)
arrowDown ==
    /\ ~KeysIgnored
    /\ selectedIndex' = IF selectedIndex < Len(filteredCountries) - 1
                        THEN selectedIndex + 1 ELSE selectedIndex
    /\ Mark("arrowDown", "")
    /\ UNCHANGED <<page, countries, today, call, geometryRequest, countryPolygons,
                   pointOfView, gameScreen, gameMode, totalRounds,
                   currentRound, roundResults, targetCountry, guesses, roundOver,
                   gameOver, win, inputValue, showSuggestions, error, errorTimers,
                   acceptedCodes>>

\* ArrowUp in the input box (handleKeyDown)
arrowUp ==
    /\ ~KeysIgnored
    /\ selectedIndex' = IF selectedIndex > 0 THEN selectedIndex - 1 ELSE -1
    /\ Mark("arrowUp", "")
    /\ UNCHANGED <<page, countries, today, call, geometryRequest, countryPolygons,
                   pointOfView, gameScreen, gameMode, totalRounds,
                   currentRound, roundResults, targetCountry, guesses, roundOver,
                   gameOver, win, inputValue, showSuggestions, error, errorTimers,
                   acceptedCodes>>

\* filteredCountries[selectedIndex], undefined past the end of the list
selectedSuggestion ==
    IF selectedIndex + 1 \in DOMAIN filteredCountries
    THEN filteredCountries[selectedIndex + 1]
    ELSE Null

polygonMatches_SameName(polygon, guess) ==
    toLowerCase(polygon.name) = toLowerCase(guess.country.name)

\* the test of guesses.find in getPolygonColor; polygon.name is
\* polygon.properties?.name || ''
polygonMatches(polygon, guess) ==
    \/ includes(toLowerCase(polygon.name), toLowerCase(guess.country.name))
    \/ includes(toLowerCase(guess.country.name), toLowerCase(polygon.name))

\* default unguessed
UnguessedPolygonColor == "rgba(100, 100, 100, 0.3)"

\* getPolygonColor: the tier of the first guess of the list that matches
getPolygonColor(polygon) ==
    IF targetCountry = Null THEN UnguessedPolygonColor
    ELSE LET matching == {i \in 1..Len(guesses) : polygonMatches(polygon, guesses[i])}
         IN  IF matching = {} THEN UnguessedPolygonColor
             ELSE LET first == CHOOSE i \in matching : \A j \in matching : i <= j
                  IN  guessedPolygonColor(guesses[first].distance)

\* the suggestion buttons rendered: filteredCountries.slice(0, 8)
SuggestionLimit == 8

shownSuggestions ==
    IF showSuggestions
    THEN SubSeq(filteredCountries, 1,
                IF Len(filteredCountries) < SuggestionLimit
                THEN Len(filteredCountries) ELSE SuggestionLimit)
    ELSE <<>>

(***************************************************************************)
(* Handlers of page_overlay.tsx (one game at a time, no modes).            *)
(***************************************************************************)
\* globe: globeEl.current is set when the handler runs
startNewGame(globe) ==
    /\ \E i \in 1..Len(countries) :
          /\ targetCountry' = countries[i]
          /\ pointOfView' = IF globe THEN roundStartPointOfView(countries[i])
                            ELSE pointOfView
    /\ guesses' = <<>>
    /\ gameOver' = FALSE
    /\ win' = FALSE
    /\ inputValue' = <<>>
    /\ showSuggestions' = SuggestionsAfter(<<>>)
    /\ error' = ""
    /\ acceptedCodes' = <<>>
    /\ Mark("startNewGame", "")
    /\ UNCHANGED <<page, countries, today, call, geometryRequest, countryPolygons,
                   selectedIndex, gameScreen, gameMode, totalRounds,
                   currentRound, roundResults, roundOver, errorTimers>>

overlaySubmitGuess(selectedCountry) ==
    /\ Mark("submitGuess", selectedCountry.code)
    /\ UNCHANGED <<page, countries, today, call, geometryRequest, countryPolygons,
                   selectedIndex, gameScreen, gameMode, totalRounds,
                   currentRound, roundResults, targetCountry, roundOver>>
    /\ IF gameOver \/ targetCountry = Null
       THEN UNCHANGED <<guesses, inputValue, showSuggestions, error, errorTimers,
                        win, gameOver, acceptedCodes, pointOfView>>
       ELSE LET guessedCountry ==
                    IF selectedCountry # Null THEN selectedCountry
                    ELSE FindCountry(inputValue)
            IN  IF guessedCountry = Null
                THEN /\ error' = NotFoundMessage
                     /\ ScheduleErrorClear
                     /\ UNCHANGED <<guesses, inputValue, showSuggestions, win,
                                    gameOver, acceptedCodes, pointOfView>>
                ELSE IF AlreadyGuessed(guessedCountry)
                THEN /\ error' = DuplicateMessage
                     /\ ScheduleErrorClear
                     /\ UNCHANGED <<guesses, inputValue, showSuggestions, win,
                                    gameOver, acceptedCodes, pointOfView>>
                ELSE LET distance ==
                             getDistanceFromLatLonInKm(
                                 guessedCountry.latitude, guessedCountry.longitude,
                                 targetCountry.latitude, targetCountry.longitude)
                         newGuess == [country |-> guessedCountry, distance |-> distance]
                     IN  /\ guesses' = UpdatedGuesses(newGuess)
                         /\ inputValue' = <<>>
                         /\ showSuggestions' = FALSE
                         /\ error' = ""
                         /\ UNCHANGED errorTimers
                         /\ acceptedCodes' = Append(acceptedCodes, guessedCountry.code)
                         /\ pointOfView' = guessPointOfView(guessedCountry)
                         /\ IF IsTarget(guessedCountry)
                            THEN /\ win' = TRUE
                                 /\ gameOver' = TRUE
                            ELSE UNCHANGED <<win, gameOver>>

(***************************************************************************)
(* The events the rendered page.tsx offers.                                *)
(***************************************************************************)
\* the round counts the setup screen offers
RoundOptions == {3, 5, 10}

OnModes == page = "page.tsx"

\* the form with the input box is rendered
FormShown == OnModes /\ gameScreen = "playing" /\ ~roundOver

\* the round-over panel is rendered
PanelShown == OnModes /\ gameScreen = "playing" /\ roundOver

ClickPractice ==
    /\ OnModes /\ gameScreen = "home"
    /\ gameScreen' = "setup"
    /\ Mark("setGameScreen", "setup")
    /\ UNCHANGED <<page, countries, today, call, geometryRequest, countryPolygons,
                   selectedIndex, pointOfView, gameMode, totalRounds, currentRound,
                   roundResults, targetCountry, inputValue, guesses, roundOver,
                   gameOver, win, showSuggestions, error, errorTimers,
                   acceptedCodes>>

ClickBack ==
    /\ OnModes /\ gameScreen = "setup"
    /\ gameScreen' = "home"
    /\ Mark("setGameScreen", "home")
    /\ UNCHANGED <<page, countries, today, call, geometryRequest, countryPolygons,
                   selectedIndex, pointOfView, gameMode, totalRounds, currentRound,
                   roundResults, targetCountry, inputValue, guesses, roundOver,
                   gameOver, win, showSuggestions, error, errorTimers,
                   acceptedCodes>>

ClickRounds ==
    /\ OnModes /\ gameScreen = "setup"
    /\ \E num \in RoundOptions :
          /\ num <= MaxRounds
          /\ totalRounds' = num
    /\ Mark("setTotalRounds", "")
    /\ UNCHANGED <<page, countries, today, call, geometryRequest, countryPolygons,
                   selectedIndex, pointOfView, gameScreen, gameMode, currentRound,
                   roundResults, targetCountry, inputValue, guesses, roundOver,
                   gameOver, win, showSuggestions, error, errorTimers,
                   acceptedCodes>>

ClickDaily ==
    /\ OnModes /\ gameScreen = "home"
    /\ startGame("daily", 1)

ClickStartGame ==
    /\ OnModes /\ gameScreen = "setup"
    /\ totalRounds <= MaxRounds
    /\ startGame("practice", totalRounds)

ClickPlayAgain ==
    /\ OnModes /\ gameScreen = "results"
    /\ startGame(gameMode, totalRounds)

ClickResultsHome ==
    /\ OnModes /\ gameScreen = "results"
    /\ returnToHome

TypeInput ==
    /\ FormShown
    /\ \E value \in InputValues : setInputValue(value)

SubmitForm ==
    /\ FormShown
    /\ submitGuess(Null)

ClickSuggestion ==
    /\ FormShown
    /\ \E i \in 1..Len(shownSuggestions) : submitGuess(shownSuggestions[i])

PressEscape ==
    /\ FormShown
    /\ hideSuggestions

FocusInput ==
    /\ FormShown
    /\ focusInput

PressArrowDown ==
    /\ FormShown
    /\ arrowDown

PressArrowUp ==
    /\ FormShown
    /\ arrowUp

\* Enter with a suggestion highlighted (handleKeyDown); without one the key
\* submits the form
PressEnter ==
    /\ FormShown
    /\ ~KeysIgnored
    /\ selectedIndex >= 0
    /\ submitGuess(selectedSuggestion)

ClickSkip ==
    /\ FormShown
    /\ SkipButtonShown
    /\ skipRound

ClickNextRound ==
    /\ PanelShown
    /\ gameMode = "practice"
    /\ nextRound

ClickExit ==
    /\ PanelShown
    /\ returnToHome

(***************************************************************************)
(* The events the rendered page_overlay.tsx offers.                        *)
(***************************************************************************)
OnOverlay == page = "page_overlay.tsx"

OverlayFormShown == OnOverlay /\ ~gameOver

\* useEffect(() => { startNewGame(); }, []): the effect of the first commit,
\* which the dynamically imported Globe is not part of
OverlayMount ==
    /\ OnOverlay /\ targetCountry = Null
    /\ startNewGame(FALSE)

OverlayTypeInput ==
    /\ OverlayFormShown
    /\ \E value \in InputValues : setInputValue(value)

OverlaySubmitForm ==
    /\ OverlayFormShown
    /\ overlaySubmitGuess(Null)

OverlayClickSuggestion ==
    /\ OverlayFormShown
    /\ \E i \in 1..Len(shownSuggestions) : overlaySubmitGuess(shownSuggestions[i])

OverlayPressEscape ==
    /\ OverlayFormShown
    /\ hideSuggestions

OverlayFocusInput ==
    /\ OverlayFormShown
    /\ focusInput

OverlayPlayAgain ==
    /\ OnOverlay /\ gameOver
    /\ startNewGame(TRUE)

(***************************************************************************)
(* Specifications.                                                         *)
(***************************************************************************)
\* no utility function has been applied on its own
NoCall == [fn |-> "none", args |-> <<>>, result |-> <<>>]

\* the clock passes midnight (UTC): the day index of new Date() grows by one
MidnightPasses ==
    /\ OnModes
    /\ today < MaxDay
    /\ today' = today + 1
    /\ Mark("midnight", "")
    /\ UNCHANGED <<page, countries, call, geometryRequest, countryPolygons,
                   selectedIndex, pointOfView, gameScreen, gameMode, totalRounds,
                   currentRound, roundResults, targetCountry, inputValue, guesses,
                   roundOver, gameOver, win, showSuggestions, error, errorTimers,
                   acceptedCodes>>

Init ==
    /\ page \in Pages
    /\ countries \in Tables
    /\ gameScreen = "home"
    /\ gameMode = NoMode
    /\ totalRounds = 5
    /\ currentRound = 1
    /\ roundResults = <<>>
    /\ targetCountry = Null
    /\ inputValue = <<>>
    /\ guesses = <<>>
    /\ roundOver = FALSE
    /\ gameOver = FALSE
    /\ win = FALSE
    /\ showSuggestions = FALSE
    /\ error = ""
    /\ errorTimers = 0
    /\ lastCall = [op |-> "init", arg |-> ""]
    /\ acceptedCodes = <<>>
    /\ today = 0
    /\ call = NoCall
    /\ geometryRequest = "pending"
    /\ countryPolygons = <<>>
    /\ selectedIndex = -1
    /\ pointOfView = NoPointOfView

\* the events of the mode-based page
NextModes ==
    \/ ClickPractice
    \/ ClickBack
    \/ ClickRounds
    \/ ClickDaily
    \/ ClickStartGame
    \/ ClickPlayAgain
    \/ ClickResultsHome
    \/ TypeInput
    \/ SubmitForm
    \/ ClickSuggestion
    \/ PressEscape
    \/ FocusInput
    \/ ClickSkip
    \/ ClickNextRound
    \/ ClickExit

\* the events of the single-game page
NextOverlay ==
    \/ OverlayMount
    \/ OverlayTypeInput
    \/ OverlaySubmitForm
    \/ OverlayClickSuggestion
    \/ OverlayPressEscape
    \/ OverlayFocusInput
    \/ OverlayPlayAgain

Next ==
    \/ NextModes
    \/ NextOverlay
    \/ ErrorTimerFires

\* every behaviour of the rendered pages, within one day
Spec == Init /\ [][Next]_vars

\* submitGuess and skipRound called where the rendered page offers no control
\* for them (the form is gone once the round is over, the Skip Round button is
\* there in practice mode only): the calls their own early returns are for.
\* submitGuess is called with the typed name and with the target itself, the
\* one country that would win the round.
CallSubmitGuess ==
    /\ OnModes
    /\ ~FormShown
    /\ \E c \in {Null, targetCountry} : submitGuess(c)

CallSkipRound ==
    /\ OnModes
    /\ ~(FormShown /\ SkipButtonShown)
    /\ skipRound

NextApi ==
    \/ NextModes
    \/ ErrorTimerFires
    \/ CallSubmitGuess
    \/ CallSkipRound

InitApi == Init /\ OnModes

\* every behaviour of the rendered page.tsx, with those direct calls added
SpecApi == InitApi /\ [][NextApi]_vars

\* the round count is left as it stands (the Daily button sets it to 1): the
\* daily target does not read it
NextDaily ==
    \/ ClickPractice
    \/ ClickBack
    \/ ClickDaily
    \/ ClickStartGame
    \/ ClickPlayAgain
    \/ ClickResultsHome
    \/ TypeInput
    \/ SubmitForm
    \/ ClickSuggestion
    \/ PressEscape
    \/ FocusInput
    \/ ClickSkip
    \/ ClickNextRound
    \/ ClickExit
    \/ ErrorTimerFires
    \/ MidnightPasses

\* every behaviour of the rendered page.tsx while the days go by
SpecDaily == InitApi /\ [][NextDaily]_vars

(***************************************************************************)
(* The geometry fetch of the mount effect, and the keys of the input box.  *)
(***************************************************************************)
\* the names of the features the map data holds, as far as the colouring
\* reads them: polygon.properties?.name, <<>> where a feature has none
AtlasNames ==
    << <<"S", "o", "m", "a", "l", "i", "a">>,
       <<"R", "o", "m", "a", "n", "i", "a">>,
       <<"O", "m", "a", "n">>,
       <<"C", "h", "a", "d">>,
       <<>> >>

\* topojson.feature(data, data.objects.countries).features
AtlasFeatures == [i \in DOMAIN AtlasNames |-> [name |-> AtlasNames[i]]]

\* both then-handlers run: setCountryPolygons(countries)
FetchResolves ==
    /\ OnModes
    /\ geometryRequest = "pending"
    /\ geometryRequest' = "fulfilled"
    /\ countryPolygons' = AtlasFeatures
    /\ Mark("setCountryPolygons", "")
    /\ UNCHANGED <<page, countries, today, call, selectedIndex, pointOfView,
                   gameScreen, gameMode, totalRounds, currentRound, roundResults,
                   targetCountry, guesses, roundOver, gameOver, win, inputValue,
                   showSuggestions, error, errorTimers, acceptedCodes>>

\* a then-handler throws (res.json() fails, window.topojson is missing) and
\* the catch handler logs the error
FetchHandlerThrows ==
    /\ OnModes
    /\ geometryRequest = "pending"
    /\ geometryRequest' = "thrown"
    /\ Mark("console.error", "")
    /\ UNCHANGED countryPolygons
    /\ UNCHANGED <<page, countries, today, call, selectedIndex, pointOfView,
                   gameScreen, gameMode, totalRounds, currentRound, roundResults,
                   targetCountry, guesses, roundOver, gameOver, win, inputValue,
                   showSuggestions, error, errorTimers, acceptedCodes>>

FetchRejects_ShowsError ==
    /\ OnModes
    /\ geometryRequest = "pending"
    /\ geometryRequest' = "rejected"
    /\ error' = "Failed to load country geometries"
    /\ Mark("console.error", "")
    /\ UNCHANGED <<page, countries, today, call, countryPolygons, selectedIndex,
                   pointOfView, gameScreen, gameMode, totalRounds, currentRound,
                   roundResults, targetCountry, guesses, roundOver, gameOver, win,
                   inputValue, showSuggestions, errorTimers, acceptedCodes>>

\* fetch rejects (the network fails) and the catch handler logs the error
FetchRejects ==
    /\ OnModes
    /\ geometryRequest = "pending"
    /\ geometryRequest' = "rejected"
    /\ Mark("console.error", "")
    /\ UNCHANGED countryPolygons
    /\ UNCHANGED <<page, countries, today, call, selectedIndex, pointOfView,
                   gameScreen, gameMode, totalRounds, currentRound, roundResults,
                   targetCountry, guesses, roundOver, gameOver, win, inputValue,
                   showSuggestions, error, errorTimers, acceptedCodes>>

\* the round count is left as it stands, as in NextDaily
NextView ==
    \/ ClickPractice
    \/ ClickBack
    \/ ClickDaily
    \/ ClickStartGame
    \/ ClickPlayAgain
    \/ ClickResultsHome
    \/ TypeInput
    \/ SubmitForm
    \/ ClickSuggestion
    \/ PressEscape
    \/ FocusInput
    \/ PressArrowDown
    \/ PressArrowUp
    \/ PressEnter
    \/ ClickSkip
    \/ ClickNextRound
    \/ ClickExit
    \/ ErrorTimerFires
    \/ FetchResolves
    \/ FetchHandlerThrows
    \/ FetchRejects

\* every behaviour of the rendered page.tsx with the geometry fetch settling
\* at any point and the suggestion list walked with the keys
SpecView == InitApi /\ [][NextView]_vars

(***************************************************************************)
(* The utility functions applied on their own, to arguments the pages may  *)
(* never pass them: one application from the initial state.                *)
(***************************************************************************)
programVars ==
    <<page, countries, gameScreen, gameMode, totalRounds, currentRound,
      roundResults, targetCountry, inputValue, guesses, roundOver, gameOver,
      win, showSuggestions, error, errorTimers, lastCall, acceptedCodes, today,
      geometryRequest, countryPolygons, selectedIndex, pointOfView>>

\* latitudes and longitudes the bearing is computed on
DirectionLatitudes == {-60, -30, 0, 30, 60}

DirectionLongitudes == {0, 30, 60}

\* latitudes and longitudes the distance is computed on
DistanceLatitudes == {-60, 0, 60}

DistanceLongitudes == {-120, -60, 0, 60, 120}

\* the daily index of a day and of the day after it
CallDailyIndex ==
    /\ call = NoCall
    /\ \E daysSinceEpoch \in 0..MaxDayIndex, length \in 1..MaxTableLength :
          call' = [fn |-> "dailyIndex",
                   args |-> <<daysSinceEpoch, length>>,
                   result |-> <<dailyIndex(daysSinceEpoch, length),
                                dailyIndex(daysSinceEpoch + 1, length)>>]
    /\ UNCHANGED programVars

\* every tier function of both pages, on one distance
CallClassifiers ==
    /\ call = NoCall
    /\ \E distance \in 0..MaxDistance :
          call' = [fn |-> "classify",
                   args |-> <<distance>>,
                   result |-> [getColor |-> getColor(distance),
                               getTextColor |-> getTextColor(distance),
                               getPointColor |-> getPointColor(distance),
                               getHotColdText |-> getHotColdText(distance),
                               getPolygonColor |-> guessedPolygonColor(distance),
                               overlayGetColor |-> overlayGetColor(distance),
                               overlayGetTextColor |-> overlayGetTextColor(distance),
                               overlayGetPointColor |-> overlayGetPointColor(distance),
                               overlayGetHotColdText |-> overlayGetHotColdText(distance),
                               overlayGetPolygonColor |->
                                   overlayGuessedPolygonColor(distance)]]
    /\ UNCHANGED programVars

CallGetDirection ==
    /\ call = NoCall
    /\ \E lat1 \in DirectionLatitudes, lon1 \in DirectionLongitudes,
          lat2 \in DirectionLatitudes, lon2 \in DirectionLongitudes :
          call' = [fn |-> "getDirection",
                   args |-> <<lat1, lon1, lat2, lon2>>,
                   result |-> [index |-> compassIndex(lat1, lon1, lat2, lon2),
                               label |-> getDirection(lat1, lon1, lat2, lon2)]]
    /\ UNCHANGED programVars

\* the values (brng * 180) / Math.PI takes, in hundredths of a degree:
\* Math.atan2 returns an angle from -180 to 180 degrees
Bearings == -18000..18000

\* lines 458-460 of getDirection on one bearing
CallCompassOfBearing ==
    /\ call = NoCall
    /\ \E deg \in Bearings :
          call' = [fn |-> "compass",
                   args |-> <<deg>>,
                   result |-> [index |-> roundedOctant(deg),
                               label |-> compassAt(roundedOctant(deg))]]
    /\ UNCHANGED programVars

\* the distance from the first point to the second, and back
CallGetDistance ==
    /\ call = NoCall
    /\ \E lat1 \in DistanceLatitudes, lon1 \in DistanceLongitudes,
          lat2 \in DistanceLatitudes, lon2 \in DistanceLongitudes :
          call' = [fn |-> "getDistanceFromLatLonInKm",
                   args |-> <<lat1, lon1, lat2, lon2>>,
                   result |-> <<getDistanceFromLatLonInKm(lat1, lon1, lat2, lon2),
                                getDistanceFromLatLonInKm(lat2, lon2, lat1, lon1)>>]
    /\ UNCHANGED programVars

NextUtils ==
    \/ CallDailyIndex
    \/ CallClassifiers
    \/ CallGetDirection
    \/ CallCompassOfBearing
    \/ CallGetDistance

InitUtils == Init /\ OnModes /\ countries = <<Mali>>

\* the utility functions, each applied to every argument of its grid
SpecUtils == InitUtils /\ [][NextUtils]_vars

(***************************************************************************)
(* Properties.                                                             *)
(***************************************************************************)
\* a step made by submitGuess
SubmitStep == lastCall'.op = "submitGuess"

\* the step is submitGuess() with the typed name, no suggestion picked
TypedSubmitStep == SubmitStep /\ lastCall'.arg = Null.code

\* no table entry has this name, compared case-insensitively
NoEntryNamed(name) ==
    \A i \in 1..Len(countries) :
        toLowerCase(countries[i].name) # toLowerCase(name)

GuessedCodes == {guesses[i].country.code : i \in 1..Len(guesses)}

\* the code the submission of this step resolves to is already in the list
ResubmitsGuessedCode ==
    \/ /\ lastCall'.arg # Null.code
       /\ lastCall'.arg \in GuessedCodes
    \/ /\ lastCall'.arg = Null.code
       /\ \E i \in 1..Len(countries) :
             /\ toLowerCase(countries[i].name) = toLowerCase(inputValue)
             /\ countries[i].code \in GuessedCodes

\* everything but the error message, its timer and the trace is left alone
OnlyErrorChanges ==
    UNCHANGED <<page, countries, today, call, geometryRequest, countryPolygons,
                   selectedIndex, pointOfView, gameScreen, gameMode, totalRounds,
                currentRound, roundResults, targetCountry, inputValue, guesses,
                roundOver, gameOver, win, showSuggestions>>

\* C1: submitGuess with a typed name that matches no table entry
\* (case-insensitive exact match; the empty string included) leaves the guess
\* list, target, roundOver, win and roundResults unchanged and only sets the
\* "Country not found" message.
C1_NotFoundLeavesStateUnchanged ==
    [][(TypedSubmitStep /\ OnModes /\ NoEntryNamed(inputValue))
         => (OnlyErrorChanges /\ error' = NotFoundMessage)]_vars

\* the empty string was submitted after a guess had been accepted, and rejected
C1_Witness ==
    /\ OnModes
    /\ lastCall = [op |-> "submitGuess", arg |-> Null.code]
    /\ inputValue = <<>>
    /\ error = NotFoundMessage
    /\ Len(guesses) >= 1
    /\ ~roundOver

\* C2: submitGuess with a country, typed or picked from the suggestions,
\* whose code is already in the round's guess list leaves the guess list,
\* target, roundOver, win and roundResults unchanged and only sets the
\* "already guessed" message.
C2_DuplicateLeavesStateUnchanged ==
    [][(SubmitStep /\ OnModes /\ ResubmitsGuessedCode)
         => (OnlyErrorChanges /\ error' = DuplicateMessage)]_vars

\* a guessed country was picked again from the suggestion list, and rejected
C2_Witness ==
    /\ OnModes
    /\ lastCall.op = "submitGuess"
    /\ lastCall.arg # Null.code
    /\ lastCall.arg \in GuessedCodes
    /\ error = DuplicateMessage
    /\ Len(guesses) = 1

\* C3: in every reachable state no country code appears more than once in
\* the current round's guess list.
C3_GuessCodesUnique ==
    \A i, j \in 1..Len(guesses) :
        i # j => guesses[i].country.code # guesses[j].country.code

\* in the second round of a session, after startGame, guesses and nextRound,
\* a resubmission was turned down and the list holds its one guess
C3_Witness ==
    /\ currentRound = 2
    /\ Len(guesses) = 1
    /\ error = DuplicateMessage
    /\ lastCall.op = "submitGuess"

\* C4: submitGuess called while the round is terminal (won or skipped) or
\* while no target is set changes nothing: no guess appended, no RoundResult
\* recorded, win, roundOver and the error message as they were.
C4_TerminalSubmitIsNoOp ==
    [][(SubmitStep /\ OnModes /\ (roundOver \/ targetCountry = Null))
         => UNCHANGED <<page, countries, today, call, geometryRequest, countryPolygons,
                   selectedIndex, pointOfView, gameScreen, gameMode, totalRounds,
                        currentRound, roundResults, targetCountry, inputValue,
                        guesses, roundOver, gameOver, win, showSuggestions,
                        error, errorTimers, acceptedCodes>>]_vars

\* the target itself was submitted on a skipped round, and nothing came of it
C4_Witness ==
    /\ OnModes
    /\ lastCall.op = "submitGuess"
    /\ targetCountry # Null
    /\ lastCall.arg = targetCountry.code
    /\ roundOver /\ ~win
    /\ targetCountry.code \notin GuessedCodes

\* an accepted guess: the list grew by the guess now at its head
AcceptedStep == SubmitStep /\ OnModes /\ Len(guesses') = Len(guesses) + 1

\* C5 as claimed: on an accepted guess the round becomes Won (win and
\* roundOver set) exactly when the distance computed for the guess is 0.
C5_WonIffDistanceZero ==
    [][AcceptedStep => ((win' /\ roundOver') <=> (guesses'[1].distance = 0))]_vars

\* C5 as amended: on an accepted guess the round becomes Won (win and
\* roundOver set) exactly when the guessed country's code equals the
\* target's code; a guess at distance greater than 0 leaves the round
\* InProgress, and so does a guess at distance 0 of another country that
\* shares the target's coordinates.
C5_WonIffCodeMatches ==
    [][AcceptedStep =>
         /\ win' <=> (guesses'[1].country.code = targetCountry.code)
         /\ roundOver' <=> (guesses'[1].country.code = targetCountry.code)
         /\ (guesses'[1].distance > 0) => (~win' /\ ~roundOver')
         /\ (win' /\ roundOver') => (guesses'[1].distance = 0)]_vars

\* a round won by its second guess, after a first guess at distance 0 that
\* did not win
C5_Witness ==
    /\ OnModes
    /\ win /\ roundOver
    /\ Len(guesses) = 2
    /\ guesses[1].distance = 0
    /\ guesses[2].distance = 0
    /\ guesses[2].country.code # targetCountry.code

\* C6: the guess list is most-recent-first: after k accepted guesses of a
\* round it has length k and its element at position i (0-based) is the
\* (k-i)-th accepted guess; rejected submissions do not change the order.
C6_MostRecentFirst ==
    /\ Len(guesses) = Len(acceptedCodes)
    /\ \A i \in 0..(Len(guesses) - 1) :
          guesses[i + 1].country.code = acceptedCodes[Len(acceptedCodes) - i]

\* two guesses accepted, the second one while the clear-timer of a rejected
\* submission was still pending
C6_Witness ==
    /\ Len(guesses) = 2
    /\ lastCall.op = "submitGuess"
    /\ errorTimers >= 1
    /\ guesses[1].country.code = acceptedCodes[2]
    /\ guesses[2].country.code = acceptedCodes[1]
    /\ acceptedCodes[1] # acceptedCodes[2]

\* this step runs startNewRound
StartsNewRound ==
    \/ lastCall'.op = "startGame"
    \/ lastCall'.op = "nextRound" /\ currentRound < totalRounds

\* C7: within a round roundOver goes from false to true at most once,
\* exactly one RoundResult is appended at that transition (by the winning
\* guess or by skipRound), and roundOver, win and the guess list stay as
\* they are until startNewRound runs.
C7_TerminalOnce ==
    [][/\ (~roundOver /\ roundOver')
            => /\ lastCall'.op \in {"submitGuess", "skipRound"}
               /\ Len(roundResults') = Len(roundResults) + 1
               /\ SubSeq(roundResults', 1, Len(roundResults)) = roundResults
               /\ roundResults'[Len(roundResults')].country = targetCountry
       /\ (Len(roundResults') > Len(roundResults))
            => (~roundOver /\ roundOver')
       /\ (roundOver /\ ~StartsNewRound)
            => /\ roundOver'
               /\ win' = win
               /\ guesses' = guesses]_vars

\* a round won by its second guess on which skipRound was then called: the
\* one RoundResult of the win stands
C7_Witness ==
    /\ OnModes
    /\ roundOver /\ win
    /\ gameScreen = "playing"
    /\ Len(guesses) = 2
    /\ Len(roundResults) = 1
    /\ currentRound = 1
    /\ lastCall.op = "skipRound"

SameCode(guess) == guess.country.code = targetCountry.code

SamePoint(guess) ==
    /\ guess.country.latitude = targetCountry.latitude
    /\ guess.country.longitude = targetCountry.longitude

\* no two entries of the table lie at the same coordinates
DistinctCoordinates ==
    \A i, j \in 1..Len(countries) :
        (/\ countries[i].latitude = countries[j].latitude
         /\ countries[i].longitude = countries[j].longitude) => i = j

\* C8 as claimed: every Guess of the current round has distance >= 0, and
\* distance 0 if and only if its country's code equals the target's code.
C8_ZeroIffSameCode ==
    targetCountry # Null =>
        \A i \in 1..Len(guesses) :
            /\ guesses[i].distance >= 0
            /\ (guesses[i].distance = 0) <=> SameCode(guesses[i])

\* C8 as amended: no Guess of the current round has a negative distance, and
\* a Guess has distance 0 if and only if the guessed country lies at the target's
\* coordinates; a guess of the target's code has distance 0, and distance 0
\* means the target's code for every table with unique codes in which no two
\* entries share their coordinates.
C8_ZeroIffSamePoint ==
    targetCountry # Null =>
        \A i \in 1..Len(guesses) :
            /\ guesses[i].distance >= 0
            /\ (guesses[i].distance = 0) <=> SamePoint(guesses[i])
            /\ SameCode(guesses[i]) => (guesses[i].distance = 0)
            /\ DistinctCoordinates =>
                  ((guesses[i].distance = 0) <=> SameCode(guesses[i]))

\* a round with the target guessed at distance 0 and another guess farther off
C8_Witness ==
    /\ targetCountry # Null
    /\ DistinctCoordinates
    /\ Len(guesses) = 2
    /\ guesses[1].distance = 0
    /\ SameCode(guesses[1])
    /\ guesses[2].distance > 0

\* C9: skipRound on an in-progress round sets roundOver with win left
\* false, leaves the guess list unchanged and appends a RoundResult with
\* guesses = 0 and won = false for the current target, however many guesses
\* were made; on a terminal round or with no target it changes nothing.
C9_SkipRecordsZeroGuesses ==
    [][(lastCall'.op = "skipRound") =>
         IF ~roundOver /\ targetCountry # Null
         THEN /\ roundOver'
              /\ ~win /\ ~win'
              /\ guesses' = guesses
              /\ roundResults' =
                    Append(roundResults,
                           [country |-> targetCountry, guesses |-> 0, won |-> FALSE])
              /\ UNCHANGED <<targetCountry, currentRound, totalRounds, gameMode,
                             gameScreen>>
         ELSE UNCHANGED <<page, countries, today, call, geometryRequest, countryPolygons,
                   selectedIndex, pointOfView, gameScreen, gameMode, totalRounds,
                          currentRound, roundResults, targetCountry, inputValue,
                          guesses, roundOver, gameOver, win, showSuggestions,
                          error, errorTimers, acceptedCodes>>]_vars

\* a round skipped after a guess had been made: the result records 0 guesses
C9_Witness ==
    /\ lastCall.op = "skipRound"
    /\ roundOver /\ ~win
    /\ Len(guesses) >= 1
    /\ roundResults # <<>>
    /\ roundResults[Len(roundResults)] =
          [country |-> targetCountry, guesses |-> 0, won |-> FALSE]

\* C10: a round becomes Lost (roundOver with win false) only in practice
\* mode: in daily mode and in the single-game page no state has the round
\* over without a win.
C10_LostOnlyInPractice ==
    /\ (gameMode = "daily") => ~(roundOver /\ ~win)
    /\ (gameScreen = "playing" /\ roundOver /\ ~win) => gameMode = "practice"
    /\ OnOverlay => ~(gameOver /\ ~win) /\ ~roundOver

\* a daily round played to its end after wrong guesses
C10_Witness ==
    /\ gameMode = "daily"
    /\ gameScreen = "playing"
    /\ roundOver /\ win
    /\ Len(guesses) >= 2

\* a step in which startNewRound runs: startGame, or nextRound before the
\* last round
StartsNewRound_Step ==
    \/ lastCall'.op = "startGame"
    \/ lastCall'.op = "nextRound" /\ currentRound < totalRounds

\* C11: startNewRound, from any prior state, leaves the guess list empty,
\* roundOver and win false and a target set; every entry to the playing
\* screen is a step of startGame, which runs it, so no round starts with
\* guesses or a terminal flag left over.
C11_RoundStartsClean ==
    [][/\ StartsNewRound_Step =>
            (/\ guesses' = <<>>
             /\ ~roundOver'
             /\ ~win'
             /\ targetCountry' # Null)
       /\ (gameScreen # "playing" /\ gameScreen' = "playing") =>
            (/\ lastCall'.op = "startGame"
             /\ guesses' = <<>>
             /\ ~roundOver'
             /\ ~win'
             /\ targetCountry' # Null)]_vars

\* round 2 just started by nextRound after round 1 was won with two guesses
C11_Witness ==
    /\ lastCall.op = "nextRound"
    /\ gameScreen = "playing"
    /\ currentRound = 2
    /\ Len(roundResults) = 1
    /\ roundResults[1].won
    /\ roundResults[1].guesses = 2
    /\ guesses = <<>>
    /\ ~roundOver
    /\ ~win
    /\ targetCountry # Null

\* C12: in a practice session over a table with more than one country, the
\* target nextRound chooses for round k+1 never has the code of the target of
\* round k.
C12_NextTargetDiffers ==
    [][(/\ lastCall'.op = "nextRound"
        /\ gameMode = "practice"
        /\ currentRound' = currentRound + 1
        /\ Len(countries) > 1)
         => targetCountry'.code # targetCountry.code]_vars

\* round 2 of a practice session over two countries, its target not the one
\* recorded for round 1
C12_Witness ==
    /\ lastCall.op = "nextRound"
    /\ gameMode = "practice"
    /\ currentRound = 2
    /\ Len(countries) > 1
    /\ Len(roundResults) = 1
    /\ roundResults[1].country.code # targetCountry.code

\* C13: a daily round's target is the table entry at index
\* (day index mod table length), whatever the previous target, the guesses
\* made or the games played before; two daily rounds started on the same day
\* so get the same target.
C13_DailyTargetByDayAlone ==
    [][(lastCall'.op = "startGame" /\ lastCall'.arg = "daily")
         => targetCountry' = countries[(today % Len(countries)) + 1]]_vars

\* a daily round started on day 1 over two countries, after an earlier game
\* whose rejected guess still has its timer pending
C13_Witness ==
    /\ lastCall.op = "startGame"
    /\ lastCall.arg = "daily"
    /\ today = 1
    /\ Len(countries) = 2
    /\ targetCountry = countries[2]
    /\ errorTimers >= 1

\* C14: for every day index d >= 0 and table length n > 1 the daily index of
\* day d + 1 differs from that of day d; for n = 1 both are 0.
C14_NextDayNextIndex ==
    call.fn = "dailyIndex" =>
        LET length == call.args[2]
        IN  /\ call.result[1] \in 0..(length - 1)
            /\ call.result[2] \in 0..(length - 1)
            /\ length > 1 => call.result[2] # call.result[1]
            /\ length = 1 => (call.result[1] = 0 /\ call.result[2] = 0)

\* the last entry of a table of three: the next day wraps to the first
C14_Witness ==
    /\ call.fn = "dailyIndex"
    /\ call.args = <<5, 3>>
    /\ call.result = <<2, 0>>

\* C15: the number of recorded RoundResults never exceeds totalRounds and
\* currentRound stays within 1..totalRounds.
C15_SessionWithinRounds ==
    /\ Len(roundResults) <= totalRounds
    /\ currentRound >= 1
    /\ currentRound <= totalRounds

\* the results screen after the last of three rounds, one result per round
C15_Witness ==
    /\ gameScreen = "results"
    /\ lastCall.op = "nextRound"
    /\ totalRounds = 3
    /\ currentRound = 3
    /\ Len(roundResults) = 3

\* the sum of guesses over the won rounds among the first i results
RECURSIVE WonGuessesUpTo(_)
WonGuessesUpTo(i) ==
    IF i = 0 THEN 0
    ELSE WonGuessesUpTo(i - 1)
         + (IF roundResults[i].won THEN roundResults[i].guesses ELSE 0)

\* the session of the example: won in 2, skipped, won in 4
ExampleSession ==
    <<[country |-> Mali, guesses |-> 2, won |-> TRUE],
      [country |-> Oman, guesses |-> 0, won |-> FALSE],
      [country |-> Togo, guesses |-> 4, won |-> TRUE]>>

\* C16: on the results screen the win count is the number of RoundResults
\* with won = true, and the average is the sum of guesses over the won rounds
\* divided by their number, to one decimal, or 0 when no round was won;
\* skipped rounds count in neither (won in 2, skipped, won in 4: 3.0).
C16_AverageOverWonRounds ==
    gameScreen = "results" =>
        LET won == {i \in 1..Len(roundResults) : roundResults[i].won}
            n == Cardinality(won)
            sum == WonGuessesUpTo(Len(roundResults))
            avg == calculateAverageScore
        IN  /\ wonRoundsCount = n
            /\ n = 0 => avg = <<0>>
            /\ n > 0 =>
                  /\ Len(avg) = 2
                  /\ avg[2] \in 0..9
                  /\ 2 * n * (10 * avg[1] + avg[2]) <= 20 * sum + n
                  /\ 20 * sum + n < 2 * n * (10 * avg[1] + avg[2] + 1)
            /\ AverageScoreOf(ExampleSession) = <<3, 0>>

\* results of a session won in 2, skipped, won in 1: two wins, average 1.5
C16_Witness ==
    /\ gameScreen = "results"
    /\ Len(roundResults) = 3
    /\ roundResults[1].won /\ roundResults[1].guesses = 2
    /\ ~roundResults[2].won
    /\ roundResults[3].won /\ roundResults[3].guesses = 1
    /\ wonRoundsCount = 2
    /\ calculateAverageScore = <<1, 5>>

\* C17: the feedback tier of a distance d >= 0 is Correct iff d = 0, Hot iff
\* 0 < d < 1000, Warm iff 1000 <= d < 3000, Cool iff 3000 <= d < 8000 and
\* Cold iff d >= 8000.
C17_TierThresholds ==
    call.fn = "classify" =>
        LET d == call.args[1]
            text == call.result.getHotColdText
        IN  /\ (text = "CORRECT!") <=> (d = 0)
            /\ (text = "HOT") <=> (0 < d /\ d < 1000)
            /\ (text = "WARM") <=> (1000 <= d /\ d < 3000)
            /\ (text = "COOL") <=> (3000 <= d /\ d < 8000)
            /\ (text = "COLD") <=> (d >= 8000)

\* a distance on a threshold: 8000 km is Cold
C17_Witness ==
    /\ call.fn = "classify"
    /\ call.args = <<8000>>
    /\ call.result.getHotColdText = "COLD"

\* the tier each returned style or text stands for
TierOfColor ==
    ("from-emerald-500 to-green-600" :> "Correct") @@
    ("from-red-500 to-red-600" :> "Hot") @@
    ("from-orange-500 to-orange-600" :> "Warm") @@
    ("from-yellow-400 to-yellow-500" :> "Cool") @@
    ("from-gray-400 to-gray-500" :> "Cold")

TierOfPointColor ==
    ("#10b981" :> "Correct") @@ ("#ef4444" :> "Hot") @@ ("#f97316" :> "Warm") @@
    ("#facc15" :> "Cool") @@ ("#9ca3af" :> "Cold")

TierOfText ==
    ("CORRECT!" :> "Correct") @@ ("HOT" :> "Hot") @@ ("WARM" :> "Warm") @@
    ("COOL" :> "Cool") @@ ("COLD" :> "Cold")

TierOfPolygonColor ==
    ("rgba(16, 185, 129, 0.8)" :> "Correct") @@
    ("rgba(239, 68, 68, 0.8)" :> "Hot") @@
    ("rgba(249, 115, 22, 0.8)" :> "Warm") @@
    ("rgba(250, 204, 21, 0.8)" :> "Cool") @@
    ("rgba(156, 163, 175, 0.8)" :> "Cold")

\* C18: for every d >= 0, getColor, getPointColor, getHotColdText and the
\* guessed branch of getPolygonColor select the same tier, in both pages,
\* and getTextColor changes exactly at the Cool/Cold boundary (8000).
C18_ClassifiersAgree ==
    call.fn = "classify" =>
        LET d == call.args[1]
            res == call.result
            tier == TierOfText[res.getHotColdText]
        IN  /\ TierOfColor[res.getColor] = tier
            /\ TierOfPointColor[res.getPointColor] = tier
            /\ TierOfPolygonColor[res.getPolygonColor] = tier
            /\ TierOfColor[res.overlayGetColor] = tier
            /\ TierOfPointColor[res.overlayGetPointColor] = tier
            /\ TierOfText[res.overlayGetHotColdText] = tier
            /\ TierOfPolygonColor[res.overlayGetPolygonColor] = tier
            /\ (res.getTextColor = "text-white") <=> (tier # "Cold")
            /\ (res.getTextColor = "text-gray-900") <=> (tier = "Cold")
            /\ (res.getTextColor = "text-white") <=> (d < 8000)
            /\ res.overlayGetTextColor = res.getTextColor

\* the last distance of the Cool tier, in every classifier
C18_Witness ==
    /\ call.fn = "classify"
    /\ call.args = <<7999>>
    /\ call.result.getColor = "from-yellow-400 to-yellow-500"
    /\ call.result.overlayGetPointColor = "#facc15"
    /\ call.result.getPolygonColor = "rgba(250, 204, 21, 0.8)"
    /\ call.result.getTextColor = "text-white"

CompassLabels == {"N", "NE", "E", "SE", "S", "SW", "W", "NW"}

\* C19: getDirection returns one of the eight labels for every pair of
\* points, never undefined: the index lies in 0..8, and for coincident
\* points the label is N.
C19_DirectionIsALabel ==
    call.fn = "getDirection" =>
        /\ call.result.index \in 0..8
        /\ call.result.label \in CompassLabels
        /\ (call.args[1] = call.args[3] /\ call.args[2] = call.args[4])
              => call.result.label = "N"

\* a bearing just west of north: index 8, the ninth entry of the table
C19_Witness ==
    /\ call.fn = "getDirection"
    /\ call.result.index = 8
    /\ call.result.label = "N"
    /\ call.args[2] # call.args[4]

\* C20: getDistanceFromLatLonInKm returns 0 when both points are the same
\* and the same value when the two points are swapped.
C20_DistanceIdentityAndSymmetry ==
    call.fn = "getDistanceFromLatLonInKm" =>
        /\ call.result[1] = call.result[2]
        /\ (call.args[1] = call.args[3] /\ call.args[2] = call.args[4])
              => call.result[1] = 0

\* two points of different latitude and longitude, the same distance both ways
C20_Witness ==
    /\ call.fn = "getDistanceFromLatLonInKm"
    /\ call.args[1] # call.args[3]
    /\ call.args[2] # call.args[4]
    /\ call.result[1] > 0
    /\ call.result[1] = call.result[2]

\* a step of the geometry fetch: a then-handler or the catch handler runs
FetchStep == geometryRequest' # geometryRequest

\* C21: whenever the geometry fetch settles (its data arrives, a then-handler
\* throws, or the request fails), at whatever point of a session, the step
\* writes countryPolygons and nothing else: screen, mode, round counters,
\* results, target, guesses, terminal flags, input and error stay as they were
C21_FetchWritesOnlyPolygons ==
    [][FetchStep =>
          UNCHANGED <<page, countries, today, gameScreen, gameMode, totalRounds,
                      currentRound, roundResults, targetCountry, inputValue,
                      guesses, roundOver, gameOver, win, showSuggestions, error,
                      errorTimers, acceptedCodes, selectedIndex, pointOfView>>]_vars

\* the fetch has failed in the middle of a round with a guess made, and the
\* error shown for a rejected guess is still up
C21_Witness ==
    /\ lastCall.op = "console.error"
    /\ geometryRequest = "rejected"
    /\ gameScreen = "playing" /\ ~roundOver
    /\ Len(guesses) = 1
    /\ error = DuplicateMessage

\* a round of page.tsx is in progress
RoundInProgress ==
    OnModes /\ gameScreen = "playing" /\ targetCountry # Null /\ ~roundOver

\* C22: while a round is in progress the camera command the globe was given
\* does not depend on the target: before the first guess it is the command
\* the round would have started with had any other table entry been the
\* target, and after a guess it is the command of the latest guess
C22_CameraIndependentOfTarget ==
    RoundInProgress =>
        IF guesses = <<>>
        THEN \A i \in 1..Len(countries) :
                 pointOfView = roundStartPointOfView(countries[i])
        ELSE pointOfView = guessPointOfView(guesses[1].country)

\* C23: the target changes only in a step that runs startNewRound (startGame,
\* or nextRound going on to another round) or returnToHome; submitGuess
\* (accepted or rejected), skipRound, the keys that walk the suggestion list,
\* typing, the error-clear timers and the geometry fetch leave it as it is
C23_TargetFixedForRound ==
    [][targetCountry' # targetCountry =>
          (StartsNewRound \/ lastCall'.op = "returnToHome")]_vars

\* a suggestion highlighted with the arrow keys was submitted with Enter and
\* rejected as a duplicate, with a timer pending and the map data loaded
C23_Witness ==
    /\ RoundInProgress
    /\ lastCall.op = "submitGuess"
    /\ selectedIndex >= 0
    /\ error = DuplicateMessage
    /\ errorTimers > 0
    /\ geometryRequest = "fulfilled"
    /\ Len(guesses) = 1

\* C24: the step of submitGuess that wins a round appends one RoundResult
\* whose country is the round's target, whose won is true and whose guesses
\* is the number of guesses accepted in the round, the winning one included:
\* at least 1, and the length of the guess list shown
C24_WonResultCountsGuesses ==
    [][(SubmitStep /\ OnModes /\ ~roundOver /\ roundOver') =>
          /\ Len(roundResults') = Len(roundResults) + 1
          /\ LET result == roundResults'[Len(roundResults')]
             IN  /\ result.country = targetCountry
                 /\ result.won = TRUE
                 /\ result.guesses = Len(acceptedCodes')
                 /\ result.guesses >= 1
                 /\ result.guesses = Len(guesses')]_vars

\* the second round of a session has just been won with the second guess
C24_Witness ==
    /\ OnModes /\ gameScreen = "playing"
    /\ lastCall.op = "submitGuess"
    /\ roundOver /\ win
    /\ Len(roundResults) = 2
    /\ Len(guesses) = 2
    /\ roundResults[2] = [country |-> targetCountry, guesses |-> 2, won |-> TRUE]

\* the centres of the eight labels, in hundredths of a degree
LabelCentre ==
    [N |-> 0, NE |-> 4500, E |-> 9000, SE |-> 13500,
     S |-> 18000, SW |-> 22500, W |-> 27000, NW |-> 31500]

\* the angle between two bearings, the short way round
AngleBetween(a, b) ==
    LET d == IF a >= b THEN a - b ELSE b - a
    IN  IF d <= 18000 THEN d ELSE 36000 - d

\* C25: with t the bearing normalized to [0, 360), the index is t / 45
\* rounded to the nearest integer, a half going up; index 8 is N; so every
\* t less than 22.5 degrees from a label's centre gets that label, a t
\* halfway between two centres gets the one clockwise of it, and every t in
\* [337.5, 360) gets N
C25_NearestLabelCentre ==
    call.fn = "compass" =>
        LET t == (call.args[1] + 36000) % 36000
            index == call.result.index
            label == call.result.label
        IN  /\ 4500 * index - 2250 <= t /\ t < 4500 * index + 2250
            /\ index = 8 => label = "N"
            /\ label \in DOMAIN LabelCentre
            /\ \A l \in DOMAIN LabelCentre :
                   AngleBetween(t, LabelCentre[l]) < 2250 => label = l
            /\ AngleBetween(t, LabelCentre[label]) <= 2250
            /\ AngleBetween(t, LabelCentre[label]) = 2250
                   => t = (LabelCentre[label] + 33750) % 36000
            /\ t >= 33750 => label = "N"

\* a bearing of -22.5 degrees: t is 337.5, halfway between NW and N, index 8
C25_Witness ==
    /\ call.fn = "compass"
    /\ call.args = <<-2250>>
    /\ call.result.index = 8
    /\ call.result.label = "N"

\* the lower-cased name of one is a substring of the lower-cased name of the other
NamesOverlap(a, b) ==
    LET la == toLowerCase(a)
        lb == toLowerCase(b)
    IN  \/ \E i \in 0..(Len(la) - Len(lb)) : SubSeq(la, i + 1, i + Len(lb)) = lb
        \/ \E i \in 0..(Len(lb) - Len(la)) : SubSeq(lb, i + 1, i + Len(la)) = la

AnyRoundInProgress ==
    \/ RoundInProgress
    \/ OnOverlay /\ targetCountry # Null /\ ~gameOver

\* C27: while a round is in progress the target's code is not in the guess
\* list, so submitting the target is not rejected as a duplicate and wins
\* the round in that one step; and the guess list of a round is never longer
\* than the country table
C27_TargetNeverGuessedInProgress ==
    /\ AnyRoundInProgress =>
          /\ targetCountry.code \notin GuessedCodes
          /\ ~AlreadyGuessed(targetCountry)
          /\ IsTarget(targetCountry)
    /\ Len(guesses) <= Len(countries)
    /\ Len(acceptedCodes) <= Len(countries)

\* every country of a two-entry table but the target has been guessed and
\* the round is still in progress
C27_Witness ==
    /\ RoundInProgress
    /\ Len(countries) = 2
    /\ Len(guesses) = 1
    /\ guesses[1].country.code # targetCountry.code
    /\ guesses[1].distance = 0

\* C28: on the playing screen roundResults holds one entry for each round
\* before the current one, and one more once the current round is over; on
\* the results screen it holds totalRounds entries
C28_ResultsTrackRounds ==
    /\ (OnModes /\ gameScreen = "playing") =>
          Len(roundResults) = currentRound - 1 + (IF roundOver THEN 1 ELSE 0)
    /\ (OnModes /\ gameScreen = "results") =>
          Len(roundResults) = totalRounds

\* the results screen after three rounds, the first won and the second skipped
C28_Witness ==
    /\ OnModes /\ gameScreen = "results"
    /\ totalRounds = 3
    /\ Len(roundResults) = 3
    /\ roundResults[1].won /\ ~roundResults[2].won
    /\ lastCall.op = "nextRound"

\* C29: a practice session has 3, 5 or 10 rounds, whatever was played before
\* it was started
C29_PracticeRoundCount ==
    (OnModes /\ gameMode = "practice") => totalRounds \in RoundOptions

\* C30: a message shown for a rejected submission is cleared by a timer only
\* if the timer is the one that rejection scheduled.  The timers all run for
\* 3 seconds and fire in the order they were scheduled, and a displayed
\* message is that of the latest rejection, whose timer is the last of those
\* pending: so the timer that clears a displayed message is the only one
\* pending
C30_OwnTimerClearsError ==
    [][(lastCall'.op = "errorTimer" /\ error # "") => errorTimers = 1]_vars
====
